---- MODULE Spec2Model ----
(***************************************************************************)
(* Delhi Breath API (src/main.py): the PM2.5 concentration-to-AQI          *)
(* converter pm25_to_aqi and the /aqi handler get_delhi_aqi.               *)
(*                                                                         *)
(* Python floats are IEEE-754 binary64.  Every float of the program is     *)
(* modelled exactly, as a sign, a mantissa and a binary exponent, and      *)
(* every float operation rounds its exact result to 53 significant bits,   *)
(* ties to even, as the hardware does.  Mantissas and the intermediate     *)
(* exact results do not fit TLC's integers; they are little-endian         *)
(* sequences of 14-bit limbs.  The magnitudes the program handles (1e-3 to *)
(* 1e6) are far from the subnormal and the overflow range, so neither is   *)
(* modelled.                                                               *)
(***************************************************************************)
EXTENDS Integers, Sequences, FiniteSets, TLC

----------------------------------------------------------------------------
(* Natural numbers of any size: little-endian limb sequences, <<>> is 0.   *)

LimbBits == 7 + 7
Base == 2^LimbBits

Max(a, b) == IF a >= b THEN a ELSE b
Min(a, b) == IF a <= b THEN a ELSE b
Abs(n) == IF n < 0 THEN -n ELSE n

Limb(a, i) == IF i >= 1 /\ i <= Len(a) THEN a[i] ELSE 0

RECURSIVE BNorm(_)
BNorm(a) ==
    IF a = <<>> THEN <<>>
    ELSE IF a[Len(a)] = 0 THEN BNorm(SubSeq(a, 1, Len(a) - 1))
    ELSE a

RECURSIVE BFromInt(_)
BFromInt(n) == IF n = 0 THEN <<>> ELSE <<n % Base>> \o BFromInt(n \div Base)

RECURSIVE BToInt(_)
BToInt(a) == IF a = <<>> THEN 0 ELSE Head(a) + Base * BToInt(Tail(a))

(* Carry (or borrow: \div floors) propagation over column sums. *)
RECURSIVE BCarry(_, _)
BCarry(cols, carry) ==
    IF cols = <<>> THEN BFromInt(carry)
    ELSE LET t == Head(cols) + carry
         IN  <<t % Base>> \o BCarry(Tail(cols), t \div Base)

BAdd(a, b) ==
    BNorm(BCarry([i \in 1..Max(Len(a), Len(b)) |-> Limb(a, i) + Limb(b, i)], 0))

(* a - b, for a >= b *)
BSub(a, b) ==
    BNorm(BCarry([i \in 1..Max(Len(a), Len(b)) |-> Limb(a, i) - Limb(b, i)], 0))

BMulSmall(a, n) == BNorm(BCarry([i \in 1..Len(a) |-> a[i] * n], 0))

RECURSIVE ColSum(_, _, _, _)
ColSum(a, b, k, i) ==
    IF i > Len(a) THEN 0
    ELSE a[i] * Limb(b, k + 1 - i) + ColSum(a, b, k, i + 1)

(* schoolbook product; operands of at most 4 limbs keep a column under 2^31 *)
BMul(a, b) ==
    IF a = <<>> \/ b = <<>> THEN <<>>
    ELSE BNorm(BCarry([k \in 1..(Len(a) + Len(b) - 1) |-> ColSum(a, b, k, 1)], 0))

(* a * 2^s *)
BShl(a, s) ==
    IF a = <<>> THEN <<>>
    ELSE BMulSmall([i \in 1..(s \div LimbBits) |-> 0] \o a, 2^(s % LimbBits))

(* floor(a / 2^s) *)
BShr(a, s) ==
    LET d == s \div LimbBits
        r == s % LimbBits
        p == 2^r
        n == Len(a) - d
    IN  IF n <= 0 THEN <<>>
        ELSE BNorm([i \in 1..n |->
                 (a[i + d] \div p) + (Limb(a, i + d + 1) % p) * 2^(LimbBits - r)])

(* bit i (from 0) of a *)
BBit(a, i) == (Limb(a, (i \div LimbBits) + 1) \div 2^(i % LimbBits)) % 2

(* a mod 2^s /= 0 *)
BLowBits(a, s) ==
    \/ \E i \in 1..Min(Len(a), s \div LimbBits) : a[i] # 0
    \/ Limb(a, (s \div LimbBits) + 1) % 2^(s % LimbBits) # 0

RECURSIVE IntBitLen(_)
IntBitLen(n) == IF n = 0 THEN 0 ELSE 1 + IntBitLen(n \div 2)

(* number of significant bits of a normalised a *)
BitLen(a) ==
    IF a = <<>> THEN 0 ELSE (Len(a) - 1) * LimbBits + IntBitLen(a[Len(a)])

(* -1, 0, 1 as a < b, a = b, a > b; both normalised *)
RECURSIVE BCmpFrom(_, _, _)
BCmpFrom(a, b, i) ==
    IF i = 0 THEN 0
    ELSE IF a[i] < b[i] THEN -1
    ELSE IF a[i] > b[i] THEN 1
    ELSE BCmpFrom(a, b, i - 1)

BCmp(a, b) ==
    IF Len(a) < Len(b) THEN -1
    ELSE IF Len(a) > Len(b) THEN 1
    ELSE BCmpFrom(a, b, Len(a))

(* a value computed once and used more than once is passed as a parameter *)
NormQuotient(d) == [q |-> BNorm(d.q), r |-> d.r]

(* quotient and remainder of a by a small n (n < 2^17), limbs from the top; *)
(* q holds the quotient's limbs above limb i                               *)
RECURSIVE BDivSmallFrom(_, _, _, _, _)
BDivSmallFrom(a, n, i, q, rem) ==
    IF i = 0 THEN [q |-> q, r |-> rem]
    ELSE BDivSmallFrom(a, n, i - 1, <<(rem * Base + a[i]) \div n>> \o q,
                       (rem * Base + a[i]) % n)

BDivSmall(a, n) == NormQuotient(BDivSmallFrom(a, n, Len(a), <<>>, 0))

(* the largest d < Base with b * d <= t, its bits found from bit i down *)
RECURSIVE BDigit(_, _, _, _)
BDigit(t, b, i, d) ==
    IF i < 0 THEN d
    ELSE IF BCmp(BMulSmall(b, d + 2^i), t) <= 0
         THEN BDigit(t, b, i - 1, d + 2^i)
         ELSE BDigit(t, b, i - 1, d)

(* quotient and remainder of a by b /= 0: long division, limbs from the top; *)
(* q holds the quotient's limbs above limb i, t is the running remainder    *)
(* with limb i brought down, d its quotient digit                           *)
RECURSIVE BDivModFrom(_, _, _, _, _)
RECURSIVE BDivModDigit(_, _, _, _, _, _)
BDivModDigit(a, b, i, q, t, d) ==
    IF d = 0 THEN BDivModFrom(a, b, i - 1, <<0>> \o q, t)
    ELSE BDivModFrom(a, b, i - 1, <<d>> \o q, BSub(t, BMulSmall(b, d)))

BDivModStep(a, b, i, q, t) ==
    BDivModDigit(a, b, i, q, t, BDigit(t, b, LimbBits - 1, 0))

BDivModFrom(a, b, i, q, rem) ==
    IF i = 0 THEN [q |-> q, r |-> rem]
    ELSE BDivModStep(a, b, i, q, BNorm(<<a[i]>> \o rem))

BDivMod(a, b) == NormQuotient(BDivModFrom(a, b, Len(a), <<>>, <<>>))

----------------------------------------------------------------------------
(* binary64 values: (-1)^neg * m * 2^e with m < 2^53 (or m = 2^53 after a  *)
(* carry), m = <<>> for zero.                                              *)

MantBits == 50 + 3
(* extra quotient bits a division computes before it rounds *)
GuardBits == 70 + 0

FZero == [neg |-> FALSE, m |-> <<>>, e |-> 0]

(* floor(a / 2^s) rounded to nearest, ties to even; sticky: the exact     *)
(* value lies strictly above a                                            *)
RoundShr(a, s, sticky) ==
    IF s = 0 THEN a
    ELSE IF BBit(a, s - 1) = 1
            /\ (BLowBits(a, s - 1) \/ sticky \/ BBit(a, s) = 1)
         THEN BAdd(BShr(a, s), <<1>>)
         ELSE BShr(a, s)

FRoundBits(neg, a, e, sticky, bl) ==
    IF bl = 0 THEN FZero
    ELSE IF bl <= MantBits THEN [neg |-> neg, m |-> a, e |-> e]
    ELSE [neg |-> neg, m |-> RoundShr(a, bl - MantBits, sticky),
          e |-> e + (bl - MantBits)]

(* the binary64 nearest to (-1)^neg * (a [+ a bit, if sticky]) * 2^e *)
FRound(neg, a, e, sticky) == FRoundBits(neg, a, e, sticky, BitLen(a))

(* float(n) of an int n, exact below 2^53 *)
FFromInt(n) == [neg |-> n < 0, m |-> BFromInt(Abs(n)), e |-> 0]

FRoundQuotient(neg, d, e, exact) == FRound(neg, d.q, e, d.r # exact)

(* a / b of two ints, b > 0, correctly rounded (int / int, int / float(int), *)
(* and the value of a decimal literal a/b)                                  *)
FDivInt(a, b) ==
    FRoundQuotient(a < 0, BDivSmall(BShl(BFromInt(Abs(a)), GuardBits), b),
                   -GuardBits, 0)

FDivShifted(x, y, s) ==
    FRoundQuotient(x.neg # y.neg, BDivMod(BShl(x.m, s), y.m), x.e - s - y.e, <<>>)

(* x / y of two floats, y /= 0; the quotient before rounding has at least *)
(* GuardBits bits                                                         *)
FDiv(x, y) == FDivShifted(x, y, GuardBits + BitLen(y.m))

FMul(x, y) == FRound(x.neg # y.neg, BMul(x.m, y.m), x.e + y.e, FALSE)

FNeg(x) == [x EXCEPT !.neg = ~x.neg]

(* -1, 0, 1 as |x| < |y|, |x| = |y|, |x| > |y|, for x, y /= 0 whose *)
(* leading bits are at tx and ty                                   *)
FCmpAbsAt(x, y, tx, ty) ==
    IF tx # ty THEN (IF tx < ty THEN -1 ELSE 1)
    ELSE BCmp(BShl(x.m, x.e - Min(x.e, y.e)), BShl(y.m, y.e - Min(x.e, y.e)))

FCmpAbs(x, y) == FCmpAbsAt(x, y, BitLen(x.m) + x.e, BitLen(y.m) + y.e)

(* x <= y *)
FLe(x, y) ==
    IF x.m = <<>> /\ y.m = <<>> THEN TRUE
    ELSE IF x.m = <<>> THEN ~y.neg
    ELSE IF y.m = <<>> THEN x.neg
    ELSE IF x.neg # y.neg THEN x.neg
    ELSE IF x.neg THEN FCmpAbs(x, y) >= 0
    ELSE FCmpAbs(x, y) <= 0

(* X, Y: the mantissas at the common exponent lo; c: X against Y *)
FAddCompared(xneg, X, yneg, Y, lo, c) ==
    IF c = 0 THEN FZero
    ELSE IF c > 0 THEN FRound(xneg, BSub(X, Y), lo, FALSE)
    ELSE FRound(yneg, BSub(Y, X), lo, FALSE)

FAddAligned(xneg, X, yneg, Y, lo) ==
    IF xneg = yneg THEN FRound(xneg, BAdd(X, Y), lo, FALSE)
    ELSE FAddCompared(xneg, X, yneg, Y, lo, BCmp(X, Y))

FAddAt(x, y, lo) ==
    FAddAligned(x.neg, BShl(x.m, x.e - lo), y.neg, BShl(y.m, y.e - lo), lo)

FAdd(x, y) ==
    IF x.m = <<>> THEN y
    ELSE IF y.m = <<>> THEN x
    ELSE FAddAt(x, y, Min(x.e, y.e))

FSub(x, y) == FAdd(x, FNeg(y))

Signed(neg, n) == IF neg THEN -n ELSE n

(* mutant: ties rounded away from zero *)
PyRound_HalfAway(x) ==
    Signed(x.neg, IF x.e >= 0 THEN BToInt(BShl(x.m, x.e))
                  ELSE BToInt(BAdd(BShr(x.m, -x.e), BFromInt(BBit(x.m, -x.e - 1)))))

(* Python's round(x) of a float: the nearest int, ties to even *)
PyRound(x) ==
    Signed(x.neg, IF x.e >= 0 THEN BToInt(BShl(x.m, x.e))
                  ELSE BToInt(RoundShr(x.m, -x.e, FALSE)))

----------------------------------------------------------------------------
(* The converter.  A decimal literal of the source with one decimal place  *)
(* is written in tenths (12.1 is 121); Literal gives its binary64 value.   *)

Literal(t) == FDivInt(t, 10)

(* A concentration that arrives as a decimal numeral with two places is   *)
(* named by its hundredths h (180.0 is 18000, -0.04 is -4); the float the *)
(* program holds is FromHundredths(h).                                    *)
FromHundredths(h) == FDivInt(h, 100)

(* mutant: the second row starts at 12.2 *)
PM25_BREAKPOINTS_Gap == <<
    <<0,    120,  0,   50>>,
    <<122,  354,  51,  100>>,
    <<355,  554,  101, 150>>,
    <<555,  1504, 151, 200>>,
    <<1505, 2504, 201, 300>>,
    <<2505, 3504, 301, 400>>,
    <<3505, 5004, 401, 500>> >>

(* (c_low, c_high, aqi_low, aqi_high), the concentrations in tenths *)
PM25_BREAKPOINTS == <<
    <<0,    120,  0,   50>>,
    <<121,  354,  51,  100>>,
    <<355,  554,  101, 150>>,
    <<555,  1504, 151, 200>>,
    <<1505, 2504, 201, 300>>,
    <<2505, 3504, 301, 400>>,
    <<3505, 5004, 401, 500>> >>

c_low(i)    == Literal(PM25_BREAKPOINTS[i][1])
c_high(i)   == Literal(PM25_BREAKPOINTS[i][2])
aqi_low(i)  == PM25_BREAKPOINTS[i][3]
aqi_high(i) == PM25_BREAKPOINTS[i][4]

(* the floats of the table and the quotient of line 48, which depend on the *)
(* row alone, evaluated once per row                                        *)
RowOf(lo, hi, alo, ahi) ==
    [c_low |-> lo, c_high |-> hi, aqi_low |-> alo, aqi_high |-> ahi,
     slope |-> FDiv(FFromInt(ahi - alo), FSub(hi, lo))]

RowFloats ==
    [i \in 1..Len(PM25_BREAKPOINTS) |->
        RowOf(c_low(i), c_high(i), aqi_low(i), aqi_high(i))]

(* round(conc * 10) *)
RoundedTenths(conc) == PyRound(FMul(conc, FFromInt(10)))

(* mutant: c_low < c <= c_high *)
InRow_StrictLow(row, c) == ~FLe(c, row.c_low) /\ FLe(c, row.c_high)

(* if c_low <= c <= c_high *)
InRow(row, c) == FLe(row.c_low, c) /\ FLe(c, row.c_high)

(* the for loop: the first row from i on that holds c, 0 when none does *)
RECURSIVE MatchRow(_, _)
MatchRow(c, i) ==
    IF i > Len(PM25_BREAKPOINTS) THEN 0
    ELSE IF InRow(RowFloats[i], c) THEN i
    ELSE MatchRow(c, i + 1)

(* mutant: the distance taken from the row's upper edge *)
Interpolate_Descending(row, c) ==
    PyRound(FAdd(FMul(row.slope, FSub(row.c_high, c)), FFromInt(row.aqi_low)))

(* mutant: + aqi_low forgotten *)
Interpolate_NoOffset(row, c) == PyRound(FMul(row.slope, FSub(c, row.c_low)))

(* int(round((aqi_high - aqi_low) / (c_high - c_low) * (c - c_low) + aqi_low)) *)
Interpolate(row, c) ==
    PyRound(FAdd(FMul(row.slope, FSub(c, row.c_low)), FFromInt(row.aqi_low)))

(* mutant: no saturation, an out-of-table concentration gives 0 *)
OutOfTableAqi_Zero == 500 - 500

(* return 500 *)
OutOfTableAqi == 500

(* one run of the function body: the rounded concentration k in tenths,   *)
(* c = k / 10.0, the row i the loop stopped at (0: it fell through) and   *)
(* the value returned                                                     *)
Pm25AtRow(k, c, i) ==
    [tenths |-> k,
     row    |-> i,
     aqi    |-> IF i = 0 THEN OutOfTableAqi ELSE Interpolate(RowFloats[i], c)]

Pm25AtFloat(k, c) == Pm25AtRow(k, c, MatchRow(c, 1))

Pm25AtTenths(k) == Pm25AtFloat(k, FDivInt(k, 10))

Pm25Run(conc) == Pm25AtTenths(RoundedTenths(conc))

pm25_to_aqi(conc) == Pm25Run(conc).aqi

Returned(run) ==
    [outcome |-> "returned", aqi |-> run.aqi, tenths |-> run.tenths, row |-> run.row]

(* a call with any float: round(conc * 10) raises ValueError for nan and *)
(* OverflowError for inf                                                 *)
CallPm25ToAqi(x) ==
    IF x.kind = "finite"
    THEN Returned(Pm25Run(FromHundredths(x.h)))
    ELSE [outcome |-> "raised", aqi |-> -1, tenths |-> 0, row |-> 0]

----------------------------------------------------------------------------
(* The /aqi handler. *)

(* inside_efficiency: Optional[int] = 85 *)
DefaultEfficiency == 85
(* the argument the handler receives: the query value, or the default *)
EfficiencyArg(q) == IF q.given THEN q.value ELSE DefaultEfficiency

(* eff = max(0, min(95, int(inside_efficiency or 85))): `or` takes 85 for *)
(* every falsy argument, None and 0 alike                                 *)
OrDefault(arg) == IF arg = 0 THEN 85 ELSE arg
ClampEfficiency(arg) == Max(0, Min(95, OrDefault(arg)))

(* mutant: 1 + eff / 100.0 *)
ReducedConc_Added(conc, eff) == FMul(conc, FAdd(FFromInt(1), FDivInt(eff, 100)))

(* reduced_conc = conc * (1 - eff / 100.0) *)
ReducedConc(conc, eff) == FMul(conc, FSub(FFromInt(1), FDivInt(eff, 100)))

(* mutant: * 100 forgotten *)
Improvement_Fraction(outside, inside) ==
    PyRound(FDivInt(outside - inside, Max(1, outside)))

(* improvement = int(round((outside - inside) / max(1, outside) * 100)) *)
Improvement(outside, inside) ==
    PyRound(FMul(FDivInt(outside - inside, Max(1, outside)), FFromInt(100)))

(* improvement_percent=max(0, improvement) *)
ImprovementPercent(outside, inside) == Max(0, Improvement(outside, inside))

(* every way the try block raises before conc is bound: requests.get      *)
(* (connection error, timeout), raise_for_status, resp.json(), the empty  *)
(* results list, results[0]["measurements"][0] and m["value"] (KeyError,  *)
(* IndexError), float(...) of a non-number                                *)
FetchFailures ==
    {"network_error", "timeout", "http_error", "invalid_json",
     "empty_results", "malformed_payload", "non_numeric_value"}

(* float(m["value"]) of nan or inf succeeds; round(conc * 10) then raises *)
(* ValueError or OverflowError inside pm25_to_aqi                         *)
NonFinite == {"nan", "inf"}

(* m.get("lastUpdated", now): absent, a string, or a value that is not a  *)
(* string, which AQIResponse's validation of last_updated: str rejects    *)
LastUpdatedKinds == {"absent", "string", "not_a_string"}

(* the try block completes: the fetch gave a finite value and the response *)
(* validates                                                               *)
TrySucceeds(up) == up.kind = "ok" /\ up.lastUpdated # "not_a_string"

(* return AQIResponse(...) *)
AQIResponse(req, path, eff, h, reduced, outside, inside, last_updated) ==
    [locals   |-> [path |-> path, eff |-> eff, reduced_conc |-> reduced],
     response |-> [status |-> 200,
                   city |-> req.city,
                   parameter |-> req.parameter,
                   concentration |-> h,
                   outside_aqi |-> outside,
                   inside_aqi |-> inside,
                   improvement_percent |-> ImprovementPercent(outside, inside),
                   last_updated |-> last_updated]]

(* lines 77-91, with conc, eff and reduced_conc bound *)
LiveReduced(req, up, conc, eff, reduced) ==
    AQIResponse(req, "live", eff, up.h, reduced,
                pm25_to_aqi(conc), pm25_to_aqi(reduced),
                IF up.lastUpdated = "string" THEN "lastUpdated" ELSE "now")

LiveWith(req, up, conc, eff) ==
    LiveReduced(req, up, conc, eff, ReducedConc(conc, eff))

(* lines 76-91 *)
LiveResponse(req, up) ==
    LiveWith(req, up, FromHundredths(up.h),
             ClampEfficiency(EfficiencyArg(req.inside_efficiency)))

(* conc = 180.0 and reduced_conc = conc * 0.15, lines 94 and 96 *)
FallbackConc == 18000

(* mutant: the share removed taken for the share kept *)
FallbackFactor_Removed == FDivInt(85, 100)

FallbackFactor == FDivInt(15, 100)

FallbackReduced(req, conc, reduced) ==
    AQIResponse(req, "fallback", -1, FallbackConc, reduced,
                pm25_to_aqi(conc), pm25_to_aqi(reduced), "now")

FallbackWith(req, conc) == FallbackReduced(req, conc, FMul(conc, FallbackFactor))

(* lines 92-107 *)
FallbackResponse(req) == FallbackWith(req, FromHundredths(FallbackConc))

get_delhi_aqi(req, up) ==
    IF TrySucceeds(up) THEN LiveResponse(req, up) ELSE FallbackResponse(req)

----------------------------------------------------------------------------
(* The state.  The program keeps nothing between calls: a behaviour is one *)
(* request to the handler, or (ConvSpec) two successive calls of the       *)
(* converter on a pair of concentrations.                                  *)

VARIABLES
    pc,         \* "calls": converter calls pending; "request": a request
                \* received; "returned", "responded": done
    args,       \* the concentrations the converter is called with, in order
    results,    \* what each converter call so far did
    request,    \* city, parameter, inside_efficiency of the GET /aqi request
    upstream,   \* what the OpenAQ fetch of this request yields
    locals,     \* the handler's path, eff and reduced_conc
    response    \* the AQIResponse sent

vars == <<pc, args, results, request, upstream, locals, response>>

(* bounds of the inputs, concentrations in hundredths *)
MinConcBelow == 300
MaxConc == 60000
FineMax == 1300
SweepStride == 733
NearZero == 7
EffMargin == 3

(* the table's edges, as inputs *)
Marks ==
    UNION {{10 * PM25_BREAKPOINTS[i][1], 10 * PM25_BREAKPOINTS[i][2]} :
              i \in 1..Len(PM25_BREAKPOINTS)}

(* every hundredth up to FineMax (and below zero), every tenth above *)
ConvValues == {h \in (-MinConcBelow)..MaxConc : h <= FineMax \/ h % 10 = 0}
NextValue(h) == IF h < FineMax THEN h + 1 ELSE 10 * ((h \div 10) + 1)

Finite(h) == [kind |-> "finite", h |-> h]
NotFinite(k) == [kind |-> k, h |-> 0]

(* each value with its successor, the marked values pairwise, and the *)
(* non-finite floats                                                  *)
ConvPairs ==
    {<<Finite(h), Finite(NextValue(h))>> : h \in {v \in ConvValues : NextValue(v) <= MaxConc}}
    \cup {<<Finite(p[1]), Finite(p[2])>> :
             p \in {q \in (Marks \cup {-MinConcBelow, -NearZero, MaxConc})
                          \X (Marks \cup {-MinConcBelow, -NearZero, MaxConc}) : q[1] < q[2]}}
    \cup {<<NotFinite(k), Finite(0)>> : k \in NonFinite}

Cities == {"Delhi", "Mumbai"}
Parameters == {"pm25", "pm10"}
Given(v) == [given |-> TRUE, value |-> v]
Omitted == [given |-> FALSE, value |-> 0]
EffArgs == {Omitted} \cup {Given(v) : v \in (-EffMargin)..(95 + EffMargin)}
EdgeEffArgs == {Omitted, Given(-1), Given(0), Given(1), Given(85), Given(95), Given(96)}

Requests(cities, parameters, effs) ==
    {[city |-> c, parameter |-> p, inside_efficiency |-> e] :
        c \in cities, p \in parameters, e \in effs}

Ok(h, lu) == [kind |-> "ok", h |-> h, lastUpdated |-> lu]
Failed(k) == [kind |-> k, h |-> 0, lastUpdated |-> "absent"]

UpstreamValues ==
    {h \in (-MinConcBelow)..MaxConc : h % SweepStride = 0 \/ (h >= -NearZero /\ h <= NearZero)}
    \cup Marks \cup {FallbackConc}

(* every request with every failure; every efficiency with every value; *)
(* every city, parameter and lastUpdated with the edge efficiencies     *)
HandlerInputs ==
    (Requests(Cities, Parameters, EffArgs)
        \X ({Failed(k) : k \in FetchFailures \cup NonFinite}
            \cup {Ok(FallbackConc, "not_a_string"), Ok(0, "not_a_string")}))
    \cup (Requests({"Delhi"}, {"pm25"}, EffArgs)
        \X {Ok(h, "string") : h \in UpstreamValues})
    \cup (Requests(Cities, Parameters, EdgeEffArgs)
        \X {Ok(h, lu) : h \in {0, FallbackConc, MaxConc}, lu \in {"absent", "string"}})

NoRequest == [city |-> "", parameter |-> "", inside_efficiency |-> Omitted]
NoUpstream == Failed("none")
NoLocals == [path |-> "none", eff |-> -1, reduced_conc |-> FZero]
NoResponse ==
    [status |-> 0, city |-> "", parameter |-> "", concentration |-> 0,
     outside_aqi |-> 0, inside_aqi |-> 0, improvement_percent |-> 0,
     last_updated |-> ""]

(* a request arrives *)
Init ==
    /\ pc = "request"
    /\ \E in \in HandlerInputs : request = in[1] /\ upstream = in[2]
    /\ args = <<>>
    /\ results = <<>>
    /\ locals = NoLocals
    /\ response = NoResponse

Respond(out) ==
    /\ locals' = out.locals
    /\ response' = out.response

(* GET /aqi: the whole handler *)
GetDelhiAqi ==
    /\ pc = "request"
    /\ Respond(get_delhi_aqi(request, upstream))
    /\ pc' = "responded"
    /\ UNCHANGED <<args, results, request, upstream>>

Next == GetDelhiAqi

Spec == Init /\ [][Next]_vars

(* the converter is to be called on a pair of concentrations *)
ConvInit ==
    /\ pc = "calls"
    /\ args \in ConvPairs
    /\ results = <<>>
    /\ request = NoRequest
    /\ upstream = NoUpstream
    /\ locals = NoLocals
    /\ response = NoResponse

(* the next call of pm25_to_aqi *)
Pm25ToAqi ==
    /\ pc = "calls"
    /\ results' = Append(results, CallPm25ToAqi(args[Len(results) + 1]))
    /\ pc' = IF Len(results) + 1 = Len(args) THEN "returned" ELSE "calls"
    /\ UNCHANGED <<args, request, upstream, locals, response>>

ConvNext == Pm25ToAqi

ConvSpec == ConvInit /\ [][ConvNext]_vars

----------------------------------------------------------------------------
(* Claims about the converter, checked under ConvSpec. *)

FiniteCalls == {j \in 1..Len(results) : args[j].kind = "finite"}
LastRow == Len(PM25_BREAKPOINTS)
TableTop == PM25_BREAKPOINTS[LastRow][2]

(* C1: every call of pm25_to_aqi with a non-negative concentration returns  *)
(* (it does not raise), the value returned is an integer from 0 to 500, and *)
(* it is exactly 500 when the concentration rounded to one decimal is above *)
(* 500.4, as for 600.0.                                                     *)
C1_RangeAndSaturation ==
    \A j \in FiniteCalls :
        args[j].h >= 0 =>
            /\ results[j].outcome = "returned"
            /\ results[j].aqi \in 0..500
            /\ (results[j].tenths > TableTop => results[j].aqi = 500)
            /\ (args[j].h >= 10 * (TableTop + 1) => results[j].aqi = 500)

C1_Witness ==
    \E j \in FiniteCalls :
        /\ args[j].h = 60000
        /\ results[j].outcome = "returned"
        /\ results[j].aqi = 500

(* C2: pm25_to_aqi is monotonically non-decreasing over the non-negative    *)
(* concentrations: of two calls with 0 <= c1 < c2 the second returns no     *)
(* less than the first (the pairs checked are every value with its          *)
(* successor, which gives all pairs by transitivity, and the table's edges  *)
(* and the largest value pairwise); and every c in [0.0, 12.0] gives a      *)
(* value in [0, 50].                                                        *)
C2_Monotone ==
    /\ (Len(results) = 2 /\ FiniteCalls = {1, 2} /\ 0 <= args[1].h
            /\ args[1].h < args[2].h)
        => results[1].aqi <= results[2].aqi
    /\ \A j \in FiniteCalls :
        (0 <= args[j].h /\ args[j].h <= 1200) => results[j].aqi \in 0..50

C2_Witness ==
    /\ Len(results) = 2
    /\ args[1] = Finite(1200)
    /\ args[2].h >= 60000
    /\ results[1].aqi = 50
    /\ results[2].aqi = 500

(* C3: at each row's two edges the converter returns the row's two AQI      *)
(* bounds: pm25_to_aqi(c_low) = aqi_low and pm25_to_aqi(c_high) = aqi_high; *)
(* so 0.0 gives 0, 12.0 gives 50, 35.4 gives 100, 150.4 gives 200, 500.4    *)
(* gives 500, and 12.1, a row's lower edge, is converted with that row, the *)
(* higher of the two it lies between, and gives 51.                         *)
C3_Edges ==
    \A j \in FiniteCalls :
        /\ \A i \in 1..Len(PM25_BREAKPOINTS) :
            /\ args[j].h = 10 * PM25_BREAKPOINTS[i][1]
                => (results[j].aqi = PM25_BREAKPOINTS[i][3] /\ results[j].row = i)
            /\ args[j].h = 10 * PM25_BREAKPOINTS[i][2]
                => (results[j].aqi = PM25_BREAKPOINTS[i][4] /\ results[j].row = i)
        /\ args[j].h = 0 => results[j].aqi = 0
        /\ args[j].h = 1200 => results[j].aqi = 50
        /\ args[j].h = 3540 => results[j].aqi = 100
        /\ args[j].h = 15040 => results[j].aqi = 200
        /\ args[j].h = 50040 => results[j].aqi = 500
        /\ args[j].h = 1210 => (results[j].aqi = 51 /\ results[j].row = 2)

C3_Witness ==
    \E j \in FiniteCalls :
        args[j].h = 1210 /\ results[j].aqi = 51 /\ results[j].row = 2

(* C8: the rows are contiguous and do not overlap at one-decimal            *)
(* granularity: the first row starts at 0.0, the last ends at 500.4, each   *)
(* row starts 0.1 above the end of the one before, and whenever the rounded *)
(* concentration of a call is from 0.0 to 500.4 exactly one row's test      *)
(* c_low <= c <= c_high holds for it, so the call does not fall through to  *)
(* the 500 of line 50.                                                      *)
RowsHolding(k) ==
    {i \in 1..Len(PM25_BREAKPOINTS) : InRow(RowFloats[i], FDivInt(k, 10))}

C8_Contiguous ==
    /\ PM25_BREAKPOINTS[1][1] = 0
    /\ PM25_BREAKPOINTS[LastRow][2] = 5004
    /\ \A i \in 1..(LastRow - 1) :
        PM25_BREAKPOINTS[i + 1][1] = PM25_BREAKPOINTS[i][2] + 1
    /\ \A i \in 1..LastRow : PM25_BREAKPOINTS[i][1] <= PM25_BREAKPOINTS[i][2]
    /\ \A j \in FiniteCalls :
        (0 <= results[j].tenths /\ results[j].tenths <= 5004) =>
            /\ Cardinality(RowsHolding(results[j].tenths)) = 1
            /\ results[j].row \in RowsHolding(results[j].tenths)

C8_Witness ==
    \E j \in FiniteCalls :
        /\ args[j].h = 1205
        /\ results[j].tenths \in {120, 121}
        /\ results[j].row # 0

----------------------------------------------------------------------------
(* Claims about the handler, checked under Spec. *)

Responded == pc = "responded"

(* the upstream fetch of the request failed: the try block raised *)
FetchFailed ==
    \/ upstream.kind \in FetchFailures \cup NonFinite
    \/ upstream.lastUpdated = "not_a_string"

(* C4: whenever the upstream fetch fails, in any way, the handler still    *)
(* answers with a normal AQIResponse, whose concentration is 180.0, whose  *)
(* outside_aqi is pm25_to_aqi(180.0) and whose inside_aqi is pm25_to_aqi   *)
(* of 180.0 reduced by 85%: the same numbers on every failure, whatever    *)
(* inside_efficiency, city and parameter were requested.                   *)
C4_FallbackOnFailure ==
    (Responded /\ FetchFailed) =>
        /\ locals.path = "fallback"
        /\ response.status = 200
        /\ response.city = request.city
        /\ response.parameter = request.parameter
        /\ response.concentration = 18000
        /\ response.outside_aqi = pm25_to_aqi(FromHundredths(18000))
        /\ response.inside_aqi = pm25_to_aqi(ReducedConc(FromHundredths(18000), 85))
        /\ <<response.outside_aqi, response.inside_aqi,
             response.improvement_percent>> = <<230, 82, 64>>

C4_Witness ==
    /\ Responded
    /\ upstream.kind = "timeout"
    /\ request.city = "Mumbai"
    /\ request.parameter = "pm10"
    /\ request.inside_efficiency = Given(0)
    /\ response.status = 200
    /\ response.concentration = 18000

(* C5, as claimed: on a successful fetch the efficiency used is the        *)
(* requested inside_efficiency clamped to [0, 95], e = min(95, max(0, r)), *)
(* and 85 only when the parameter is omitted; so a request with            *)
(* inside_efficiency = 0 leaves the concentration as it is and inside_aqi  *)
(* equals outside_aqi.                                                     *)
C5_EfficiencyClamped ==
    (Responded /\ locals.path = "live") =>
        /\ locals.eff = IF request.inside_efficiency.given
                        THEN Min(95, Max(0, request.inside_efficiency.value))
                        ELSE 85
        /\ request.inside_efficiency = Given(0)
            => response.inside_aqi = response.outside_aqi

(* C6: in every response, live or fallback, improvement_percent is the     *)
(* quotient (outside_aqi - inside_aqi) / max(1, outside_aqi) * 100 rounded *)
(* to a nearest integer and raised to 0 when that is negative; it is never *)
(* negative, and an outside_aqi of 0 divides by 1.                         *)
C6_ImprovementPercent ==
    Responded =>
        LET d == IF response.outside_aqi >= 1 THEN response.outside_aqi ELSE 1
            n == 100 * (response.outside_aqi - response.inside_aqi)
            p == response.improvement_percent
        IN  /\ p >= 0
            /\ n >= 0 => 2 * Abs(p * d - n) <= d
            /\ n < 0 => p = 0

C6_Witness ==
    /\ Responded
    /\ locals.path = "live"
    /\ response.outside_aqi = 0
    /\ response.inside_aqi = 0
    /\ response.improvement_percent = 0

(* the reference case: concentration 180.0 with efficiency 85, which is *)
(* the fallback reading and a live reading of 180.0 with 85 in effect   *)
ReferenceCase ==
    /\ Responded
    /\ response.concentration = 18000
    /\ (locals.path = "fallback" \/ locals.eff = 85)

(* C7, as claimed: for concentration 180.0 and efficiency 85 the outside *)
(* AQI is 220, the reduced concentration is 27.0 and the inside AQI is   *)
(* 83.                                                                   *)
C7_Reference220And83 ==
    ReferenceCase =>
        /\ response.outside_aqi = 220
        /\ RoundedTenths(locals.reduced_conc) = 270
        /\ response.inside_aqi = 83

(* C7, amended: for concentration 180.0 and efficiency 85 the outside AQI *)
(* is 230, interpolated in the 150.5-250.4 row; the reduced concentration *)
(* is 27.0 (exactly on the fallback path, and 27.0 once rounded to one    *)
(* decimal on the live path); the inside AQI is 82, interpolated in the   *)
(* 12.1-35.4 row.                                                         *)
C7_Reference230And82 ==
    ReferenceCase =>
        /\ response.outside_aqi = 230
        /\ Pm25Run(FromHundredths(18000)).row = 5
        /\ RoundedTenths(locals.reduced_conc) = 270
        /\ locals.path = "fallback" =>
            (FLe(locals.reduced_conc, Literal(270))
                /\ FLe(Literal(270), locals.reduced_conc))
        /\ response.inside_aqi = 82
        /\ Pm25Run(locals.reduced_conc).row = 2

C7_Witness ==
    /\ ReferenceCase
    /\ locals.path = "fallback"
    /\ response.outside_aqi = 230
    /\ response.inside_aqi = 82

(* C10: in every response, live (whatever the upstream concentration,      *)
(* negative ones too, and whatever the requested efficiency) or fallback,  *)
(* inside_aqi <= outside_aqi: the improvement before the max(0, ...) of    *)
(* lines 89 and 105 is never negative.                                     *)
C10_InsideNotWorse ==
    Responded =>
        /\ response.inside_aqi <= response.outside_aqi
        /\ Improvement(response.outside_aqi, response.inside_aqi) >= 0

C10_Witness ==
    /\ Responded
    /\ locals.path = "live"
    /\ response.concentration < 0
    /\ response.outside_aqi = 500
    /\ response.inside_aqi = 0

====
